---- MODULE Spec2Model ----
(***************************************************************************)
(* Model of src/physics.c: the Vector2d setters, solid_init and the        *)
(* rk4_update integrator bound to every Solid.                             *)
(*                                                                         *)
(* A C double is modelled as an exact fraction <<n, d>> in lowest terms    *)
(* with d > 0.  The three non-finite doubles are the fractions with d = 0: *)
(* <<1, 0>> is +inf, <<-1, 0>> is -inf and <<0, 0>> is NaN.  Rounding is   *)
(* not modelled: every arithmetic operator below returns the exact result  *)
(* of the corresponding C operator.                                        *)
(***************************************************************************)
EXTENDS Integers, Sequences, FiniteSets, TLC

\* solids: the Solids the host has created, by name, each a record of the
\*         fields of struct Solid (mass, vel, pos, force, dir, dir_vel, update)
\* call:   the last call made: its kind, its Solid and, for an update, dt and
\*         the locals N and h of rk4_update
\* ticks:  the number of update calls made so far
VARIABLES solids, call, ticks

vars == <<solids, call, ticks>>

(* ------------------------------ doubles -------------------------------- *)

Abs(n) == IF n < 0 THEN -n ELSE n

Sgn(n) == IF n < 0 THEN -1 ELSE IF n > 0 THEN 1 ELSE 0

RECURSIVE Gcd(_, _)
Gcd(a, b) == IF b = 0 THEN a ELSE Gcd(b, a % b)

Norm(n, d) ==
    IF d = 0 THEN <<Sgn(n), 0>>
    ELSE LET g == Gcd(Abs(n), Abs(d))
         IN  <<Sgn(d) * (n \div g), Abs(d) \div g>>

R(n) == <<n, 1>>

Zero == <<0, 1>>

NaN == <<0, 0>>

IsNaN(a) == a[1] = 0 /\ a[2] = 0

IsInf(a) == a[1] # 0 /\ a[2] = 0

IsFinite(a) == a[2] # 0

RatNeg(a) == <<-a[1], a[2]>>

\* C "a + b" on doubles
RatAdd(a, b) ==
    IF IsNaN(a) \/ IsNaN(b) THEN NaN
    ELSE IF IsInf(a) /\ IsInf(b) THEN (IF a[1] = b[1] THEN a ELSE NaN)
    ELSE IF IsInf(a) THEN a
    ELSE IF IsInf(b) THEN b
    ELSE LET g == Gcd(a[2], b[2])
         IN  Norm(a[1] * (b[2] \div g) + b[1] * (a[2] \div g),
                  (a[2] \div g) * b[2])

RatSub(a, b) == RatAdd(a, RatNeg(b))

\* C "a * b" on doubles
RatMul(a, b) ==
    IF IsNaN(a) \/ IsNaN(b) THEN NaN
    ELSE IF IsInf(a) \/ IsInf(b) THEN <<Sgn(a[1]) * Sgn(b[1]), 0>>
    ELSE LET g1 == Gcd(Abs(a[1]), b[2])
             g2 == Gcd(Abs(b[1]), a[2])
         IN  Norm((a[1] \div g1) * (b[1] \div g2),
                  (a[2] \div g2) * (b[2] \div g1))

\* C "a / b" on doubles: x/0 is +-inf, 0/0 and inf/inf are NaN
RatDiv(a, b) ==
    IF IsNaN(a) \/ IsNaN(b) THEN NaN
    ELSE IF IsInf(b) THEN (IF IsInf(a) THEN NaN ELSE Zero)
    ELSE IF IsInf(a) THEN <<a[1] * (IF b[1] < 0 THEN -1 ELSE 1), 0>>
    ELSE IF b[1] = 0 THEN <<Sgn(a[1]), 0>>
    ELSE RatMul(a, <<Sgn(b[1]) * b[2], Abs(b[1])>>)

\* C "a < b" on doubles: false as soon as one side is NaN
RatLT(a, b) ==
    IF IsNaN(a) \/ IsNaN(b) THEN FALSE
    ELSE IF IsInf(a) \/ IsInf(b)
         THEN (IF IsInf(a) /\ IsInf(b) THEN a[1] < b[1]
               ELSE IF IsInf(a) THEN a[1] < 0
               ELSE b[1] > 0)
    ELSE LET g == Gcd(a[2], b[2])
         IN  a[1] * (b[2] \div g) < b[1] * (a[2] \div g)

RatGT(a, b) == RatLT(b, a)

RatLE(a, b) == ~IsNaN(a) /\ ~IsNaN(b) /\ ~RatLT(b, a)

\* C "(int)a" for a finite double: truncation toward zero
Trunc(a) == Sgn(a[1]) * (Abs(a[1]) \div a[2])

(* ------------------------------ Vector2d ------------------------------- *)

\* The polar fields hold either a plain double or the exact value of a
\* square root / arc tangent that is not a fraction.
Num(r) == [k |-> "num", a |-> r, b |-> Zero]

RatAbs(a) == <<Abs(a[1]), a[2]>>

\* MOD(x,y): sqrt(x^2 + y^2)
MOD(x, y) ==
    IF IsNaN(x) \/ IsNaN(y) THEN Num(NaN)
    ELSE IF IsInf(x) \/ IsInf(y) THEN Num(<<1, 0>>)
    ELSE IF y = Zero THEN Num(RatAbs(x))
    ELSE IF x = Zero THEN Num(RatAbs(y))
    ELSE [k |-> "hyp", a |-> RatAbs(x), b |-> RatAbs(y)]

\* ANGLE(x,y): atan2(y, x)
ANGLE(x, y) ==
    IF IsNaN(x) \/ IsNaN(y) THEN Num(NaN)
    ELSE IF y = Zero /\ RatLE(Zero, x) THEN Num(Zero)
    ELSE [k |-> "atan2", a |-> y, b |-> x]

\* a double used as a C condition: true unless it is 0
Truthy(t) == ~(t.k = "num" /\ t.a = Zero)

VX(v) == v.x

VY(v) == v.y

Vec(x, y, mod, angle) == [x |-> x, y |-> y, mod |-> mod, angle |-> angle]

\* slip: only the cartesian fields are stored, the polar ones kept as they were
vect_csetXY(v, x, y) == [v EXCEPT !.x = x, !.y = y]

vect_cset(v, x, y) == [v EXCEPT !.x = x, !.y = y, !.mod = MOD(x, y), !.angle = ANGLE(x, y)]

vectcpy(dest, src) == [dest EXCEPT !.x = src.x, !.y = src.y, !.mod = src.mod, !.angle = src.angle]

vectnull(v) == [v EXCEPT !.x = Zero, !.y = Zero, !.mod = Num(Zero), !.angle = Num(Zero)]

(* ------------------------------ integrator ----------------------------- *)

\* math.h's M_PI, cut to six digits
M_PI == <<314159, 100000>>

TwoPi == RatMul(R(2), M_PI)

RK4_MIN_H == <<1, 100>>

\* slip: the pass count rounded up instead of cut
SubStepsUp(dt) == IF RatGT(dt, RK4_MIN_H) THEN Trunc(RatDiv(dt, RK4_MIN_H)) + 1 ELSE 1

\* int N = (dt>RK4_MIN_H) ? (int)(dt/RK4_MIN_H) : 1
SubSteps(dt) == IF RatGT(dt, RK4_MIN_H) THEN Trunc(RatDiv(dt, RK4_MIN_H)) ELSE 1

\* slip: the step is the whole interval, the division by N forgotten
StepSizeWhole(dt) == dt

\* double h = dt / (double)N
StepSize(dt) == RatDiv(dt, R(SubSteps(dt)))

\* the heading after "obj->dir += ...; if (> 2*M_PI) ...; if (< 0.) ..."
Heading(dir, dir_vel, dt) ==
    LET d1 == RatAdd(dir, RatMul(RatDiv(dir_vel, R(360)), dt))
        d2 == IF RatGT(d1, TwoPi) THEN RatSub(d1, TwoPi) ELSE d1
    IN  IF RatLT(d2, Zero) THEN RatAdd(d2, TwoPi) ELSE d2

\* x component: the value added to px in one pass
XBlend(vx, h) ==
    LET ix == vx
        t0 == ix
        t1 == RatAdd(t0, RatAdd(RatMul(R(2), ix), RatMul(h, t0)))
        t2 == RatAdd(t1, RatAdd(RatMul(R(2), ix), RatMul(h, t1)))
        t3 == RatAdd(t2, RatAdd(ix, RatMul(h, t2)))
    IN  RatMul(t3, RatDiv(h, R(6)))

\* slip: the first stage takes a whole step where it takes half of one
YBlendWhole(vy, h) ==
    LET iy == vy
        t0 == iy
        t1 == RatAdd(t0, RatMul(R(2), RatAdd(iy, RatMul(h, t0))))
        t2 == RatAdd(t1, RatMul(R(2), RatAdd(iy, RatMul(RatDiv(h, R(2)), t1))))
        t3 == RatAdd(t2, RatAdd(iy, RatMul(h, t2)))
    IN  RatMul(t3, RatDiv(h, R(6)))

\* y component: the value added to py in one pass
YBlend(vy, h) ==
    LET iy == vy
        t0 == iy
        t1 == RatAdd(t0, RatMul(R(2), RatAdd(iy, RatMul(RatDiv(h, R(2)), t0))))
        t2 == RatAdd(t1, RatMul(R(2), RatAdd(iy, RatMul(RatDiv(h, R(2)), t1))))
        t3 == RatAdd(t2, RatAdd(iy, RatMul(h, t2)))
    IN  RatMul(t3, RatDiv(h, R(6)))

\* vx += ax*h
VelStep(v, a, h) == RatAdd(v, RatMul(a, h))

\* one pass of the for loop over the locals px, py, vx, vy
Pass(st, ax, ay, h) ==
    [px |-> RatAdd(st.px, XBlend(st.vx, h)),
     vx |-> VelStep(st.vx, ax, h),
     py |-> RatAdd(st.py, YBlend(st.vy, h)),
     vy |-> VelStep(st.vy, ay, h)]

RECURSIVE Iterate(_, _, _, _, _, _)
Iterate(i, N, st, ax, ay, h) ==
    IF i < N THEN Iterate(i + 1, N, Pass(st, ax, ay, h), ax, ay, h) ELSE st

\* slip: the free motion advances by one step h instead of dt
NoForcePosStep(p, v, dt) == RatAdd(p, RatMul(StepSize(dt), v))

\* px += dt*vx
NoForcePos(p, v, dt) == RatAdd(p, RatMul(dt, v))

\* lines 128-174: the velocity and position of obj after dt
Kinematics(obj, dt) ==
    LET N  == SubSteps(dt)
        h  == StepSize(dt)
        st == [px |-> VX(obj.pos), py |-> VY(obj.pos),
               vx |-> VX(obj.vel), vy |-> VY(obj.vel)]
    IN  IF Truthy(obj.force.mod)
        THEN LET ax == RatDiv(VX(obj.force), obj.mass)
                 ay == RatDiv(VY(obj.force), obj.mass)
                 en == Iterate(0, N, st, ax, ay, h)
             IN  [obj EXCEPT !.vel = vect_cset(obj.vel, en.vx, en.vy),
                             !.pos = vect_cset(obj.pos, en.px, en.py)]
        ELSE [obj EXCEPT !.pos = vect_cset(obj.pos, NoForcePos(st.px, st.vx, dt),
                                                    NoForcePos(st.py, st.vy, dt))]

\* slip: the force is cleared once it has been used
rk4_updateConsume(obj, dt) ==
    LET o == Kinematics([obj EXCEPT !.dir = Heading(obj.dir, obj.dir_vel, dt)], dt)
    IN  [o EXCEPT !.force = vectnull(o.force)]

rk4_update(obj, dt) ==
    Kinematics([obj EXCEPT !.dir = Heading(obj.dir, obj.dir_vel, dt)], dt)

(* -------------------------------- Solid -------------------------------- *)

\* dest is the storage as malloc returned it; vel and pos are <<>> for NULL
solid_init(dest, mass, vel, pos) ==
    [dest EXCEPT !.mass = mass,
                 !.force.mod = Num(Zero),
                 !.dir = Zero,
                 !.vel = IF vel = <<>> THEN vectnull(dest.vel) ELSE vectcpy(dest.vel, vel[1]),
                 !.pos = IF pos = <<>> THEN vectnull(dest.pos) ELSE vectcpy(dest.pos, pos[1]),
                 !.update = "rk4_update"]

(* ------------------------------ the host ------------------------------- *)

MaxTicks == 2

Masses == {R(0), R(2)}

V1 == Vec(R(200), R(-200), Num(R(1)), Num(Zero))

P1 == Vec(R(1), R(2), Num(R(7)), Num(R(1)))

VelArgs == {<<>>, <<V1>>}

PosArgs == {<<>>, <<P1>>}

DirVels == {R(-36000), R(360000)}

DtSet == {Zero, <<1, 100>>, <<3, 200>>, <<1, 50>>, <<3, 100>>}

\* what the host may store in obj->force before a tick
Forces ==
    {vectnull(V1), vect_cset(V1, R(80000), Zero), vect_cset(V1, R(-80000), R(80000))}

\* the fields solid_init leaves as malloc returned them: dir_vel and three
\* fields of force
Malloc ==
    {[mass |-> NaN, vel |-> P1, pos |-> V1, dir |-> NaN, update |-> "",
      dir_vel |-> w, force |-> f] :
        w \in DirVels,
        f \in {Vec(Zero, Zero, Num(NaN), Num(Zero)),
               Vec(R(80000), R(-80000), Num(NaN), Num(R(1)))}}

\* Solid* dyn = MALLOC_ONE(Solid); solid_init( dyn, mass, vel, pos )
solid_create(raw, mass, vel, pos) == solid_init(raw, mass, vel, pos)

NoCall == [op |-> "create", s |-> "", dt |-> Zero, N |-> 0, h |-> Zero]

Init ==
    /\ \E raw \in Malloc, m \in Masses, v \in VelArgs, p \in PosArgs :
          solids = [s \in {"A"} |-> solid_create(raw, m, v, p)]
    /\ call = NoCall
    /\ ticks = 0

\* two Solids, out of fewer arguments
InitPair ==
    /\ \E rawA \in Malloc, rawB \in Malloc :
          /\ rawA.dir_vel = R(360000)
          /\ rawB.dir_vel = R(-36000)
          /\ rawA.force.x = Zero
          /\ rawB.force.x # Zero
          /\ solids = [s \in {"A", "B"} |->
                          IF s = "A" THEN solid_create(rawA, R(2), <<>>, <<>>)
                          ELSE solid_create(rawB, R(2), <<V1>>, <<P1>>)]
    /\ call = NoCall
    /\ ticks = 0

\* the host sets or clears obj->force
SetForce(s, f) ==
    /\ solids[s].force # f
    /\ solids' = [solids EXCEPT ![s].force = f]
    /\ call' = [NoCall EXCEPT !.op = "force", !.s = s]
    /\ UNCHANGED ticks

\* slip: the heading is kept in one place for all Solids
ApplyUpdateShared(S, s, dt) ==
    [t \in DOMAIN S |-> IF t = s THEN rk4_update(S[s], dt)
                        ELSE [S[t] EXCEPT !.dir = rk4_update(S[s], dt).dir]]

\* the effect of obj->update(obj, dt) on the population S
ApplyUpdate(S, s, dt) == [S EXCEPT ![s] = rk4_update(S[s], dt)]

\* the host ticks one Solid
Update(s, dt) ==
    /\ ticks < MaxTicks
    /\ solids[s].update = "rk4_update"
    /\ solids' = ApplyUpdate(solids, s, dt)
    /\ call' = [op |-> "update", s |-> s, dt |-> dt, N |-> SubSteps(dt), h |-> StepSize(dt)]
    /\ ticks' = ticks + 1

Next ==
    \E s \in DOMAIN solids :
        \/ \E f \in Forces : SetForce(s, f)
        \/ \E dt \in DtSet : Update(s, dt)

Spec == Init /\ [][Next]_vars

\* the intervals the host of two Solids ticks them with
PairDtSet == {<<3, 200>>, <<3, 100>>}

NextPair ==
    \E s \in DOMAIN solids :
        \/ \E f \in Forces : SetForce(s, f)
        \/ \E dt \in PairDtSet : Update(s, dt)

SpecPair == InitPair /\ [][NextPair]_vars

(* ------------------------------- properties ---------------------------- *)

\* the Solid the step just taken has updated, before and after the call
Updated == call'.op = "update"

Before == solids[call'.s]

After == solids'[call'.s]

Half == <<1, 2>>

\* p + v*dt + (1/2)*(f/m)*dt^2
ClosedForm(p, v, f, m, dt) ==
    RatAdd(RatAdd(p, RatMul(v, dt)),
           RatMul(Half, RatMul(RatDiv(f, m), RatMul(dt, dt))))

ForceDriven(obj) == Truthy(obj.force.mod) /\ RatGT(obj.mass, Zero)

\* C1: a force-driven update of a Solid of mass m > 0 leaves the position at
\* p0 + v0*dt + (1/2)*(F/m)*dt^2 on both axes, whatever the number of substeps.
C1_ClosedFormPosition ==
    [][(Updated /\ ForceDriven(Before)) =>
          /\ After.pos.x = ClosedForm(Before.pos.x, Before.vel.x, Before.force.x,
                                      Before.mass, call'.dt)
          /\ After.pos.y = ClosedForm(Before.pos.y, Before.vel.y, Before.force.y,
                                      Before.mass, call'.dt)]_vars

\* C2: an update of a Solid whose force magnitude is 0 moves the position to
\* p0 + v0*dt on both axes and leaves the four fields of the velocity as they
\* were, whatever force.x, force.y and dt are.
C2_NoForceExact ==
    [][(Updated /\ ~Truthy(Before.force.mod)) =>
          /\ After.pos.x = RatAdd(Before.pos.x, RatMul(Before.vel.x, call'.dt))
          /\ After.pos.y = RatAdd(Before.pos.y, RatMul(Before.vel.y, call'.dt))
          /\ After.vel = Before.vel]_vars

\* a no-force update over two substeps' worth of time, of a moving Solid
\* whose force still holds non-zero x and y
C2_Witness ==
    /\ call.op = "update"
    /\ call.N >= 2
    /\ ~Truthy(solids[call.s].force.mod)
    /\ solids[call.s].force.x # Zero
    /\ solids[call.s].force.y # Zero
    /\ solids[call.s].vel.x # Zero
    /\ solids[call.s].pos.x # Zero

C3_HeadingNormalized ==
    \A s \in DOMAIN solids :
        RatLE(Zero, solids[s].dir) /\ RatLT(solids[s].dir, TwoPi)

\* the integers k with k <= a < k + 1, and with k - 1 < a <= k
Floor(a) == CHOOSE k \in 0..(a[1] + 1) : k * a[2] <= a[1] /\ a[1] < (k + 1) * a[2]

Ceil(a) == CHOOSE k \in 0..(a[1] + 1) : (k - 1) * a[2] < a[1] /\ a[1] <= k * a[2]

Max(a, b) == IF a < b THEN b ELSE a

\* C4: every update uses N = max(1, ceil(dt/H_MIN)) passes of size h = dt/N,
\* so that h never exceeds H_MIN = 0.01.
C4_CeilSubsteps ==
    call.op = "update" =>
        /\ call.N = Max(1, Ceil(RatDiv(call.dt, RK4_MIN_H)))
        /\ RatMul(R(call.N), call.h) = call.dt
        /\ RatLE(call.h, RK4_MIN_H)

\* C4 as amended: every update uses N = max(1, floor(dt/H_MIN)) passes of
\* size h = dt/N, so that h is below 2*H_MIN, and at least H_MIN as soon as
\* dt is.
C4_FloorSubsteps ==
    call.op = "update" =>
        /\ call.N = Max(1, Floor(RatDiv(call.dt, RK4_MIN_H)))
        /\ RatMul(R(call.N), call.h) = call.dt
        /\ RatLT(call.h, RatMul(R(2), RK4_MIN_H))
        /\ RatLE(RK4_MIN_H, call.dt) => RatLE(RK4_MIN_H, call.h)

\* an update over a dt that is no multiple of H_MIN: one pass, longer than
\* H_MIN
C4_Witness ==
    /\ call.op = "update"
    /\ call.dt = <<3, 200>>
    /\ call.N = 1
    /\ RatGT(call.h, RK4_MIN_H)

\* C7: an update of a Solid with mass 0 and a non-zero force is rejected
\* before any mutation: heading, velocity and position stay as they were.
C7_RejectsZeroMass ==
    [][(Updated /\ Truthy(Before.force.mod) /\ Before.mass = Zero) =>
          /\ After.dir = Before.dir
          /\ After.vel = Before.vel
          /\ After.pos = Before.pos]_vars

\* C6: an update leaves the four fields of the force, the mass, the angular
\* velocity and the bound update operation of its Solid as they were, in both
\* branches.
C6_UpdateKeepsForce ==
    [][Updated =>
          /\ After.force = Before.force
          /\ After.mass = Before.mass
          /\ After.dir_vel = Before.dir_vel
          /\ After.update = Before.update]_vars

\* a force-driven update that has moved the Solid and turned it
C6_Witness ==
    /\ call.op = "update"
    /\ call.N >= 2
    /\ ForceDriven(solids[call.s])
    /\ solids[call.s].vel.x # Zero
    /\ solids[call.s].pos.x # Zero
    /\ solids[call.s].dir # Zero

\* the polar fields of v are the ones its cartesian fields give
Consistent(v) == v.mod = MOD(v.x, v.y) /\ v.angle = ANGLE(v.x, v.y)

\* C9: after any update, in both branches, the polar fields of the velocity
\* and of the position of the updated Solid are those derived from x and y.
C9_BothCommitted ==
    call.op = "update" =>
        Consistent(solids[call.s].vel) /\ Consistent(solids[call.s].pos)

\* C9 as amended: after any update the polar fields of the position are those
\* derived from x and y; those of the velocity are after a force-driven
\* update (the no-force branch does not write the velocity).
C9_CommittedWhereWritten ==
    call.op = "update" =>
        /\ Consistent(solids[call.s].pos)
        /\ Truthy(solids[call.s].force.mod) => Consistent(solids[call.s].vel)

\* a force-driven update of a Solid created with the inconsistent velocity V1
\* and position P1, moving on both axes
C9_Witness ==
    /\ call.op = "update"
    /\ ticks = 1
    /\ ForceDriven(solids[call.s])
    /\ solids[call.s].vel.mod.k = "hyp"
    /\ solids[call.s].pos.mod.k = "hyp"
    /\ solids[call.s].vel.mod # V1.mod
    /\ solids[call.s].pos.mod # P1.mod

\* the velocity components and step sizes the blends are compared on
BlendInputs ==
    {solids[s].vel.x : s \in DOMAIN solids} \cup {solids[s].vel.y : s \in DOMAIN solids}

BlendSamples == BlendInputs \cup {R(200), R(-400), <<1, 0>>}

StepSizes == {StepSize(dt) : dt \in DtSet}

\* C10: there are a velocity component v and a step h for which the x-axis
\* blend and the y-axis blend give different position increments.
C10_AxesDiffer ==
    \E v \in BlendSamples, h \in StepSizes : XBlend(v, h) # YBlend(v, h)

\* C10 as amended: the x-axis and the y-axis blend are written differently
\* but give the same position increment for every velocity component and
\* every step.
C10_AxesAgree ==
    \A v \in BlendInputs, h \in StepSizes : XBlend(v, h) = YBlend(v, h)

\* a force-driven update in several passes that has left different non-zero
\* velocities on the two axes
C10_Witness ==
    /\ call.op = "update"
    /\ call.N >= 2
    /\ ForceDriven(solids[call.s])
    /\ solids[call.s].vel.x # Zero
    /\ solids[call.s].vel.y # Zero
    /\ solids[call.s].vel.x # solids[call.s].vel.y
    /\ solids[call.s].pos.y # Zero

\* C5: an update of one Solid changes no field of any other Solid, its result
\* is a function of the Solid's own fields and dt, and updating two Solids in
\* either order gives the same state of both.
C5_Independent ==
    [][Updated =>
          /\ \A t \in DOMAIN solids \ {call'.s} : solids'[t] = solids[t]
          /\ After = rk4_update(Before, call'.dt)
          /\ ticks' < MaxTicks =>
                \A t \in DOMAIN solids \ {call'.s}, dt \in PairDtSet :
                    ApplyUpdate(solids', t, dt)
                        = ApplyUpdate(ApplyUpdate(solids, t, dt), call'.s, call'.dt)]_vars

\* both Solids have been updated, over different intervals, and turned
C5_Witness ==
    /\ DOMAIN solids = {"A", "B"}
    /\ call.op = "update"
    /\ call.s = "B"
    /\ ticks = 2
    /\ solids["A"].dir # Zero
    /\ solids["B"].dir # Zero
    /\ solids["A"].dir # RatSub(TwoPi, solids["B"].dir)

====
